---- MODULE Spec2Model ----
(***************************************************************************)
(* Momo - Helwan Linux Diagnostics: the streaming viewer of the curses     *)
(* variants momo2/momo.py, Momos/momo6.py, Momos/momo7.py, Momos/momo9.py, *)
(* Momos/momo4.py and Momos/momo2.py.                                      *)
(*                                                                         *)
(* One program (chosen in Init) runs in a terminal of a given height.  The *)
(* user types keys into the terminal's input queue, the program reads them *)
(* with getch (blocking, or non-blocking under nodelay(True)), and every   *)
(* run of a test starts one child process whose output arrives through a   *)
(* pipe.  Output lines are numbered: the k-th line a child writes is       *)
(* Line(k).                                                                *)
(***************************************************************************)
EXTENDS Integers, Sequences, FiniteSets, TLC

(* ------------------------------ bounds -------------------------------- *)
\* pad_height is 5000 in the sources; it is scaled down so that a child can
\* write more lines than the pad holds.
pad_height == 3
\* the most lines one child writes
MaxOut == pad_height + 1
\* the most children of earlier runs still alive when a run starts a child
MaxOrphans == 2
\* the most disks lsblk reports
MaxDisks == 1
\* offset += 1 has no upper limit in the sources; the model stops there
MaxOffset == pad_height + 2
\* momo6.py's pad has 1000 rows at first and grows by 500; both are scaled
\* down so that the lines of one child make the pad grow twice
PAD_ROWS == 3
PAD_GROW == 2

(* ------------------------- program constants -------------------------- *)
Variants == {"momo", "momo6", "momo7", "momo9", "momo4", "momo2"}

\* an excerpt of the TESTS table: a plain test, a disk test, the FIO test
TESTS == <<"RAM Usage", "Smart Status", "FIO Benchmark">>
DISK_TESTS == {"Smart Status"}
NumTests == Len(TESTS)

\* the terminal heights tried (rows of the screen)
Heights == {7, 8}

\* the keys tried; "S" is also the key no handler knows, "q" also stands
\* for n and Escape, which every prompt treats like q, "a" also for A
Keys == {"UP", "DOWN", "k", "j", "s", "q", "S", "ENTER", "y", "c", "1", "a"}
ERR == "ERR"

(* lines of a transcript *)
Line(k) == [kind |-> "out", n |-> k]
Marker(m) == [kind |-> m, n |-> 0]
PAD_FULL == Marker("pad_full")
SPAWN_ERROR == Marker("spawn_error")
INTERNAL_ERROR == Marker("internal_error")
EXIT_CODE == Marker("exit_code")

Max(a, b) == IF a >= b THEN a ELSE b
Min(a, b) == IF a <= b THEN a ELSE b

NoChild == [st |-> "none", out |-> 0, rc |-> 0, sig |-> FALSE]

VARIABLES
  variant,     \* which program is running
  height,      \* self.height, from stdscr.getmaxyx()
  pc,          \* where the program is
  ret,         \* where show_message continues once a key arrives
  keys,        \* the terminal's input: the key pressed and not yet read
  nodelay,     \* stdscr.nodelay mode: TRUE = getch does not wait
  selected,    \* menu selection, 0-based
  runall,      \* index (1-based) of run_all's loop, 0 outside run_all
  test,        \* index (1-based) of the test run_test was called with
  disks,       \* what select_disk's lsblk listed
  dsel,        \* select_disk's local selected
  child,       \* the child process of the current run
  consumed,    \* lines of the child read off the pipe
  gen,         \* state of the run_command_stream generator / call
  stop_flag,   \* stop_flag["stop"] (stopped in momo2.py)
  lines,       \* the transcript (lines, lines_buffer, output_lines)
  idx_line,    \* pad row counter (idx_line, pad_lines)
  offset,      \* pad offset (offset, scroll_offset, pad_pos)
  is_running,  \* momo6.py's is_running
  orphans,     \* children of earlier runs that are still alive
  logfile,     \* what the current run handed to the log writer
  logcount,    \* calls of the log writer in the current run
  terms,       \* calls of terminate() on the current run's child
  reaped,      \* the current run's child was waited for / polled as exited
  spawned,     \* the current run started a child
  scrolled,    \* a scroll key was handled in the current run
  down_stuck,  \* momo6.py: the last scroll key was Down (after an Up) and
               \* it did not raise the offset; no line has arrived since
  installed,   \* the tool of the current test: "yes" / "no" once run_test
               \* has looked (or installed it), "unchecked" outside a run
  start,       \* momo2.py: the first pad row of the last pad.refresh
  pad_offset,  \* momo9.py: the first row of the menu pad shown by draw()
  pad_maxy     \* momo6.py: pad.getmaxyx()[0], the rows of the output pad

vars == <<variant, height, pc, ret, keys, nodelay, selected, runall, test,
          disks, dsel, child, consumed, gen, stop_flag, lines,
          idx_line, offset, is_running, orphans, logfile, logcount, terms,
          reaped, spawned, scrolled, down_stuck, installed, start,
          pad_offset, pad_maxy>>

termVars == <<keys, nodelay>>
menuVars == <<selected, runall, test>>
diskVars == <<disks, dsel>>
childVars == <<child, orphans>>
localVars == <<consumed, gen, stop_flag, lines, idx_line, offset, is_running>>
histVars == <<logfile, logcount, terms, reaped, spawned, scrolled, down_stuck>>
envVars == <<variant, height>>

NoLog == <<Marker("no_log")>>

(* --------------------------- the terminal ----------------------------- *)
\* the user presses a key, once the program has read the one before: getch
\* hands the keys over one at a time and in order, so the program sees every
\* sequence of keys it can see with a longer queue
KeyPress ==
  /\ pc \notin {"exit", "crashed"}
  /\ keys = <<>>
  /\ \E k \in Keys : keys' = Append(keys, k)
  /\ UNCHANGED <<envVars, installed, start, pad_offset, pad_maxy, pc, ret, nodelay, menuVars, diskVars, childVars,
                 localVars, histVars>>

\* stdscr.getch(): the key returned, ERR when nodelay and nothing is waiting
GetchReady == nodelay \/ keys # <<>>
GetchKey == IF keys = <<>> THEN ERR ELSE Head(keys)
GetchRest == IF keys = <<>> THEN keys ELSE Tail(keys)

(* ------------------------- the child process -------------------------- *)
\* the child writes its next line into the pipe
ChildEmit ==
  /\ child.st = "running"
  /\ child.out < MaxOut
  /\ child' = [child EXCEPT !.out = @ + 1]
  /\ UNCHANGED <<envVars, installed, start, pad_offset, pad_maxy, pc, ret, termVars, menuVars, diskVars, orphans,
                 localVars, histVars>>

\* the child ends (exit code 0 or not; -15 when SIGTERM ended it) and its end
\* of the pipe closes
ChildExit ==
  /\ child.st = "running"
  /\ \E code \in (IF child.sig THEN {0, 1, -15} ELSE {0, 1}) :
       child' = [child EXCEPT !.st = "exited", !.rc = code]
  /\ UNCHANGED <<envVars, installed, start, pad_offset, pad_maxy, pc, ret, termVars, menuVars, diskVars, orphans,
                 localVars, histVars>>

\* a child left behind by an earlier run ends
OrphanExit ==
  /\ orphans > 0
  /\ orphans' = orphans - 1
  /\ UNCHANGED <<envVars, installed, start, pad_offset, pad_maxy, pc, ret, termVars, menuVars, diskVars, child,
                 localVars, histVars>>

LineAvailable == child.st # "none" /\ child.out > consumed
EndOfStream == child.st = "exited" /\ child.out = consumed

\* the number of child processes alive
Alive == orphans + (IF child.st = "running" THEN 1 ELSE 0)

(* ------------------------------- Init --------------------------------- *)
Init ==
  /\ variant \in Variants
  /\ height \in Heights
  /\ pc = "menu"
  /\ ret = "menu"
  /\ keys = <<>>
  /\ nodelay = FALSE
  /\ selected = 0
  /\ runall = 0
  /\ test = 0
  /\ disks = 0
  /\ dsel = 0
  /\ child = NoChild
  /\ consumed = 0
  /\ gen = "none"
  /\ stop_flag = FALSE
  /\ lines = <<>>
  /\ idx_line = 0
  /\ offset = 0
  /\ is_running = FALSE
  /\ orphans = 0
  /\ logfile = NoLog
  /\ logcount = 0
  /\ terms = 0
  /\ reaped = FALSE
  /\ spawned = FALSE
  /\ scrolled = FALSE
  /\ down_stuck = FALSE
  /\ installed = "unchecked"
  /\ start = 0
  /\ pad_offset = 0
  /\ pad_maxy = 0

(* ----------------------- leaving run_test ----------------------------- *)
\* the Popen object of the run goes out of scope: nothing terminates the
\* child, so a child that is still running stays alive on its own
DropChild ==
  /\ child' = NoChild
  /\ orphans' = orphans + (IF child.st = "running" THEN 1 ELSE 0)

ResetLocals ==
  /\ consumed' = 0
  /\ gen' = "none"
  /\ stop_flag' = FALSE
  /\ lines' = <<>>
  /\ idx_line' = 0
  /\ offset' = 0
  /\ is_running' = FALSE

\* run_test returns: to run_all's loop, or to the menu
ResetHist ==
  /\ logfile' = NoLog
  /\ logcount' = 0
  /\ terms' = 0
  /\ reaped' = FALSE
  /\ spawned' = FALSE
  /\ scrolled' = FALSE
  /\ down_stuck' = FALSE

\* run_test returns: to run_all's loop, or to the menu
ReturnFromRunTest ==
  /\ pc' = IF runall > 0 THEN "run_all" ELSE "menu"
  /\ ret' = "menu"
  /\ runall' = IF runall > 0 THEN runall + 1 ELSE 0
  /\ test' = 0
  /\ disks' = 0
  /\ dsel' = 0
  /\ installed' = "unchecked"
  /\ start' = 0
  /\ UNCHANGED pad_offset
  /\ pad_maxy' = 0
  /\ DropChild
  /\ ResetLocals
  /\ ResetHist

(* ------------------------------ the menu ------------------------------ *)
MenuLen == NumTests + (IF variant \in {"momo", "momo9"} THEN 2 ELSE 3)

\* what the menu item at index i (0-based) is
MenuItem(i) ==
  IF i < NumTests THEN "test"
  ELSE IF i = NumTests THEN "run_all"
  ELSE IF i = MenuLen - 1 THEN "exit"
  ELSE "view_logs"

MenuUp == IF variant = "momo" THEN {"UP"} ELSE {"UP", "k"}
MenuDown == IF variant = "momo" THEN {"DOWN"} ELSE {"DOWN", "j"}
\* momo.py also accepts Q; Escape is not among Keys
MenuQuit == {"q"}
\* momo.py runs all tests on a / A as well
MenuRunAll == IF variant = "momo" THEN {"a"} ELSE {}

\* draw() with the window put one row too high when the selection is below it
draw_OneRowShort(sel, po) ==
  IF sel < po THEN sel
  ELSE IF sel >= po + (height - 5) THEN sel - (height - 5)
  ELSE po

\* momo9.py, "Display part of Pad": the pad_offset draw() leaves, for the
\* selection sel and the pad_offset po it finds; visible_height = height - 5
draw(sel, po) ==
  IF sel < po THEN sel
  ELSE IF sel >= po + (height - 5) THEN sel - (height - 5) + 1
  ELSE po

\* run_all is entered: momo6.py first shows a notice
EnterRunAll ==
  /\ runall' = 1
  /\ IF variant = "momo6"
       THEN pc' = "msg" /\ ret' = "run_all"
       ELSE pc' = "run_all" /\ ret' = ret

\* one pass of run()/run_menu(): getch (blocking) and the key's handler
MenuKey ==
  /\ pc = "menu"
  /\ keys # <<>>
  /\ keys' = Tail(keys)
  /\ nodelay' = FALSE
  /\ LET c == Head(keys) IN
       IF c \in MenuUp THEN
         /\ selected' = Max(0, selected - 1)
         /\ UNCHANGED <<pc, ret, runall, test>>
       ELSE IF c \in MenuDown THEN
         /\ selected' = Min(MenuLen - 1, selected + 1)
         /\ UNCHANGED <<pc, ret, runall, test>>
       ELSE IF c = "ENTER" THEN
         /\ selected' = selected
         /\ CASE MenuItem(selected) = "test" ->
                   /\ pc' = "run_test"
                   /\ test' = selected + 1
                   /\ UNCHANGED <<ret, runall>>
              [] MenuItem(selected) = "run_all" ->
                   /\ EnterRunAll
                   /\ test' = test
              [] MenuItem(selected) = "view_logs" ->
                   \* open_logs: xdg-open is there, or the folder is shown
                   /\ \E fm \in BOOLEAN :
                        IF fm THEN pc' = pc /\ ret' = ret
                        ELSE pc' = "msg" /\ ret' = "menu"
                   /\ UNCHANGED <<runall, test>>
              [] MenuItem(selected) = "exit" ->
                   /\ pc' = "exit"
                   /\ UNCHANGED <<ret, runall, test>>
       ELSE IF c \in MenuRunAll THEN
         /\ EnterRunAll
         /\ UNCHANGED <<selected, test>>
       ELSE IF c \in MenuQuit THEN
         /\ pc' = "exit"
         /\ UNCHANGED <<ret, selected, runall, test>>
       ELSE UNCHANGED <<pc, ret, selected, runall, test>>
  \* the next pass of the loop begins with draw()
  /\ pad_offset' = IF variant = "momo9" /\ pc' = "menu"
                     THEN draw(selected', pad_offset) ELSE pad_offset
  /\ UNCHANGED <<envVars, installed, start, pad_maxy, diskVars, childVars,
                 localVars, histVars>>

\* SkippedByRunAll with the FIO test not left out
SkippedByRunAll_NotFio(i) == variant = "momo6" /\ TESTS[i] \in DISK_TESTS

\* SkippedByRunAll with every program leaving out the disk tests
SkippedByRunAll_DiskTests(i) == TESTS[i] \in DISK_TESTS

\* momo6.py's run_all leaves out the disk tests and the FIO test
SkippedByRunAll(i) ==
  variant = "momo6" /\ (TESTS[i] \in DISK_TESTS \/ TESTS[i] = "FIO Benchmark")

\* the head of run_all's for loop
RunAllStep ==
  /\ pc = "run_all"
  /\ IF runall > NumTests THEN
       /\ pc' = "msg"
       /\ ret' = "menu"
       /\ runall' = 0
       /\ test' = test
     ELSE IF SkippedByRunAll(runall) THEN
       /\ runall' = runall + 1
       /\ UNCHANGED <<pc, ret, test>>
     ELSE
       /\ pc' = "run_test"
       /\ test' = runall
       /\ UNCHANGED <<ret, runall>>
  /\ UNCHANGED <<envVars, installed, start, pad_offset, pad_maxy, termVars, selected, diskVars, childVars,
                 localVars, histVars>>

(* --------------------- run_test before streaming ---------------------- *)
HasDiskSelection == variant \in {"momo", "momo6", "momo7", "momo9"}

\* after the tool check: select_disk for a disk test, else the display setup
AfterToolCheck ==
  IF HasDiskSelection /\ TESTS[test] \in DISK_TESTS THEN
    \E nd \in 0..MaxDisks :
      /\ disks' = nd
      /\ dsel' = 0
      /\ IF nd = 0
           THEN pc' = "msg" /\ ret' = "disk_none"
           ELSE pc' = "select_disk" /\ ret' = ret
  ELSE
    /\ pc' = "start"
    /\ UNCHANGED <<ret, diskVars>>

\* what install_tool / install_with_pacman can do: pacman succeeds, pacman
\* fails (CalledProcessError, caught), or subprocess.run raises something
\* else (no sudo or pacman to run), which nothing catches
InstallResults == {"ok", "failed", "error"}

\* RunTest going on to the test whatever the tool check said
RunTest_IgnoresCheck ==
  /\ pc = "run_test"
  /\ \E found \in BOOLEAN :
       /\ installed' = IF found THEN "yes" ELSE "no"
       /\ UNCHANGED <<start, pad_offset, pad_maxy>>
       /\ AfterToolCheck
  /\ UNCHANGED <<envVars, termVars, menuVars, childVars, localVars, histVars>>

\* entry of run_test (run_command_flow in momo2.py): the tool check; found
\* is what is_tool_installed / check_tool_available answers
RunTest ==
  /\ pc = "run_test"
  /\ \E found \in BOOLEAN :
       /\ installed' = IF found THEN "yes" ELSE "no"
       /\ UNCHANGED <<start, pad_offset, pad_maxy>>
       /\ IF found THEN AfterToolCheck
          ELSE IF variant = "momo" THEN
            /\ pc' = "msg"
            /\ ret' = "return"
            /\ UNCHANGED diskVars
          ELSE
            /\ pc' = "prompt"
            /\ UNCHANGED <<ret, diskVars>>
  /\ UNCHANGED <<envVars, termVars, menuVars, childVars, localVars, histVars>>

\* prompt_yes_no, and what run_test does with the answer
Prompt ==
  /\ pc = "prompt"
  /\ GetchReady
  /\ keys' = GetchRest
  /\ LET c == GetchKey IN
       IF c = "y" THEN
         IF variant = "momo9" THEN
           \* "Tool not found. Skip?" answered yes: run_test goes on
           /\ AfterToolCheck
           /\ UNCHANGED <<installed, start, pad_offset, pad_maxy, runall, test, childVars, localVars,
                          histVars>>
         ELSE
           \E res \in InstallResults :
             /\ installed' = IF res = "ok" THEN "yes" ELSE installed
             /\ UNCHANGED <<start, pad_offset, pad_maxy, runall, test, childVars, localVars, histVars>>
             /\ CASE res = "ok" -> AfterToolCheck
                  [] res = "failed" ->
                       /\ pc' = "msg"
                       /\ ret' = "return"
                       /\ UNCHANGED diskVars
                  [] res = "error" ->
                       /\ pc' = "crashed"
                       /\ UNCHANGED <<ret, diskVars>>
       ELSE IF c = "q" THEN
         IF variant = "momo9" THEN ReturnFromRunTest
         ELSE
           /\ pc' = "msg"
           /\ ret' = "return"
           /\ UNCHANGED <<installed, start, pad_offset, pad_maxy, runall, test, diskVars, childVars,
                          localVars, histVars>>
       ELSE UNCHANGED <<pc, ret, installed, start, pad_offset, pad_maxy, runall, test, diskVars, childVars,
                        localVars, histVars>>
  /\ UNCHANGED <<envVars, nodelay, selected>>

\* DiskNone without the return: run_test goes on with no disk
DiskNone_GoesOn ==
  /\ pc' = "start"
  /\ UNCHANGED <<ret, installed, start, pad_offset, pad_maxy, runall, test, diskVars, childVars, localVars,
                 histVars>>

\* select_disk returned None
DiskNone ==
  IF variant = "momo" THEN ReturnFromRunTest
  ELSE
    /\ pc' = "msg"
    /\ ret' = "return"
    /\ UNCHANGED <<installed, start, pad_offset, pad_maxy, runall, test, diskVars, childVars, localVars,
                   histVars>>

\* the key loop of select_disk
SelectDisk ==
  /\ pc = "select_disk"
  /\ GetchReady
  /\ keys' = GetchRest
  /\ LET c == GetchKey IN
       IF variant = "momo" THEN
         IF c = "c" THEN DiskNone
         ELSE IF c = "1" /\ disks >= 1 THEN
           /\ pc' = "start"
           /\ UNCHANGED <<ret, installed, start, pad_offset, pad_maxy, runall, test, diskVars, childVars,
                          localVars, histVars>>
         ELSE UNCHANGED <<pc, ret, installed, start, pad_offset, pad_maxy, runall, test, diskVars,
                          childVars, localVars, histVars>>
       ELSE
         IF c \in {"UP", "k"} THEN
           /\ dsel' = Max(0, dsel - 1)
           /\ UNCHANGED <<pc, ret, installed, start, pad_offset, pad_maxy, runall, test, disks, childVars,
                          localVars, histVars>>
         ELSE IF c \in {"DOWN", "j"} THEN
           /\ dsel' = Min(disks - 1, dsel + 1)
           /\ UNCHANGED <<pc, ret, installed, start, pad_offset, pad_maxy, runall, test, disks, childVars,
                          localVars, histVars>>
         ELSE IF c = "ENTER" THEN
           /\ pc' = "start"
           /\ UNCHANGED <<ret, installed, start, pad_offset, pad_maxy, runall, test, diskVars, childVars,
                          localVars, histVars>>
         ELSE IF c = "q" THEN DiskNone
         ELSE UNCHANGED <<pc, ret, installed, start, pad_offset, pad_maxy, runall, test, diskVars,
                          childVars, localVars, histVars>>
  /\ UNCHANGED <<envVars, nodelay, selected>>

\* the display setup of run_test, up to the streaming loop
Start ==
  /\ pc = "start"
  /\ IF variant = "momo2" THEN
       \* run_command_flow announces the run first
       /\ pc' = "msg"
       /\ ret' = "stream"
       /\ UNCHANGED <<nodelay, gen, is_running>>
     ELSE
       /\ pc' = "stream"
       /\ ret' = ret
       /\ gen' = "unstarted"
       /\ nodelay' = IF variant \in {"momo", "momo6"} THEN TRUE ELSE nodelay
       /\ is_running' = (variant = "momo6")
  \* momo6.py: curses.newpad(1000, self.width)
  /\ pad_maxy' = IF variant = "momo6" THEN PAD_ROWS ELSE pad_maxy
  /\ UNCHANGED <<envVars, installed, start, pad_offset, keys, menuVars, diskVars, childVars, consumed,
                 stop_flag, lines, idx_line, offset, histVars>>

\* show_message: draw, then getch
ShowMessage ==
  /\ pc = "msg"
  /\ GetchReady
  /\ keys' = GetchRest
  /\ CASE ret = "return" -> ReturnFromRunTest
       [] ret = "disk_none" -> DiskNone
       [] ret = "stream" ->
            /\ pc' = "stream"
            /\ gen' = "unstarted"
            /\ UNCHANGED <<ret, installed, start, pad_offset, pad_maxy, runall, test, diskVars, childVars,
                           consumed, stop_flag, lines, idx_line, offset,
                           is_running, histVars>>
       [] ret \in {"menu", "run_all", "finish"} ->
            /\ pc' = ret
            /\ UNCHANGED <<ret, installed, start, pad_offset, pad_maxy, runall, test, diskVars, childVars,
                           localVars, histVars>>
  /\ UNCHANGED <<envVars, nodelay, selected>>

(* ------------- the viewport arithmetic of the streaming loops ---------- *)
\* momo.py, momo7.py, momo9.py: the pad is refreshed into screen rows
\* 3 .. height-4, that is height - 6 rows
VisibleHeight == height - 6

\* AutoScroll with the window put one row short of the newest line
AutoScroll_OneShort(n, off) ==
  IF n > VisibleHeight /\ off < n - VisibleHeight
    THEN n - VisibleHeight - 1
    ELSE off

\* momo.py: "Auto-scroll down if not manually scrolling"
AutoScroll(n, off) ==
  IF n > VisibleHeight /\ off < n - VisibleHeight
    THEN n - VisibleHeight
    ELSE off

\* KEY_UP in every variant
ScrollUp(off) == Max(0, off - 1)

\* KEY_DOWN in momo.py, momo7.py, momo9.py, momo2.py
ScrollDown(off) == off + 1

\* momo6.py
PAD_START_Y == 4
PAD_HEIGHT == height - PAD_START_Y - 2

\* momo6.py: "if the user hasn't manually scrolled up, keep the latest line
\* visible"
AutoScroll6(pl, so) ==
  IF so = pl - PAD_HEIGHT - 1 \/ pl < PAD_HEIGHT
    THEN Max(0, pl - PAD_HEIGHT)
    ELSE so

\* ScrollDown6 without its limit
ScrollDown6_Unclamped(pl, so) == so + 1

\* momo6.py: KEY_DOWN / j
ScrollDown6(pl, so) == Min(so + 1, Max(0, pl - PAD_HEIGHT - 1))

(* ------ momo.py, momo7.py, momo9.py, momo4.py: for line in generator ---- *)
ForLoop == {"momo", "momo7", "momo9", "momo4"}
HasPad == variant \in {"momo", "momo7", "momo9"}
\* no run_command_stream with a try around the Popen
CatchesSpawnError_Never == FALSE

\* the run_command_stream whose try statement covers the Popen call
CatchesSpawnError == variant \in {"momo", "momo9"}

\* what subprocess.Popen can do
SpawnResults == {"ok", "FileNotFoundError", "OSError"}

\* leaving the for loop by break: the generator is closed where it is
\* suspended, at its yield, and nothing after the yield runs
BreakLoop ==
  /\ pc' = "finish"
  /\ gen' = "closed"
  /\ DropChild

\* LoopBody with the pad limit handled by putting the marker in the place of
\* the oldest line
LoopBody_MarkerAtHead(item) ==
  IF HasPad /\ idx_line >= pad_height THEN
    /\ lines' = <<PAD_FULL>> \o Tail(lines)
    /\ pc' = "finish"
    /\ DropChild
    /\ UNCHANGED <<idx_line, offset>>
  ELSE
    /\ lines' = Append(lines, item)
    /\ idx_line' = IF HasPad THEN idx_line + 1 ELSE idx_line
    /\ offset' = IF variant = "momo" THEN AutoScroll(idx_line + 1, offset)
                 ELSE offset
    /\ pc' = "getch"
    /\ UNCHANGED <<child, orphans>>

\* the body of the for loop, from its top to the pad refresh
LoopBody(item) ==
  IF HasPad /\ idx_line >= pad_height THEN
    /\ lines' = IF variant = "momo" THEN Append(lines, PAD_FULL) ELSE lines
    /\ pc' = "finish"
    /\ DropChild
    /\ UNCHANGED <<idx_line, offset>>
  ELSE
    /\ lines' = Append(lines, item)
    /\ idx_line' = IF HasPad THEN idx_line + 1 ELSE idx_line
    /\ offset' = IF variant = "momo" THEN AutoScroll(idx_line + 1, offset)
                 ELSE offset
    /\ pc' = "getch"
    /\ UNCHANGED <<child, orphans>>

\* the for statement asks the generator for its next line
StreamNext ==
  /\ pc = "stream"
  /\ variant \in ForLoop
  /\ CASE gen = "unstarted" ->
            \E res \in SpawnResults :
              IF res = "ok" THEN
                /\ orphans < MaxOrphans
                /\ child' = [st |-> "running", out |-> 0, rc |-> 0,
                             sig |-> FALSE]
                /\ spawned' = TRUE
                /\ gen' = "reading"
                /\ UNCHANGED <<pc, orphans, consumed, lines, idx_line, offset,
                               terms, reaped>>
              ELSE IF CatchesSpawnError THEN
                /\ LoopBody(SPAWN_ERROR)
                /\ gen' = "failed"
                /\ UNCHANGED <<consumed, spawned, terms, reaped>>
              ELSE
                \* momo7.py, momo4.py: the exception leaves run_test
                /\ pc' = "crashed"
                /\ UNCHANGED <<childVars, gen, consumed, lines, idx_line,
                               offset, spawned, terms, reaped>>
       [] gen = "reading" /\ stop_flag ->
            \* the generator sees the flag: terminate(), and it ends
            /\ terms' = terms + 1
            /\ child' = [child EXCEPT !.sig = TRUE]
            /\ gen' = "done"
            /\ pc' = "finish"
            /\ UNCHANGED <<orphans, consumed, lines, idx_line, offset,
                           spawned, reaped>>
       [] gen = "reading" /\ ~stop_flag /\ LineAvailable ->
            /\ consumed' = consumed + 1
            /\ LoopBody(Line(consumed + 1))
            /\ gen' = IF HasPad /\ idx_line >= pad_height THEN "closed" ELSE gen
            /\ UNCHANGED <<spawned, terms, reaped>>
       [] gen = "reading" /\ ~stop_flag /\ EndOfStream ->
            \* end of the child's output: poll()/wait() collects the child
            /\ reaped' = TRUE
            /\ gen' = "done"
            /\ pc' = "finish"
            /\ UNCHANGED <<childVars, consumed, lines, idx_line, offset,
                           spawned, terms>>
       [] gen = "failed" ->
            \* after the error line the generator returns
            /\ gen' = "done"
            /\ pc' = "finish"
            /\ UNCHANGED <<childVars, consumed, lines, idx_line, offset,
                           spawned, terms, reaped>>
       \* otherwise the read waits for the child
       [] OTHER -> FALSE
  /\ UNCHANGED <<envVars, installed, start, pad_offset, pad_maxy, ret, termVars, menuVars, diskVars, stop_flag,
                 is_running, logfile, logcount, scrolled, down_stuck>>

\* the getch of the loop body and the key's handler
StreamKey ==
  /\ pc = "getch"
  /\ variant \in ForLoop
  /\ GetchReady
  /\ keys' = GetchRest
  /\ LET c == GetchKey IN
       /\ IF HasPad /\ c = "UP" THEN
            /\ offset' = ScrollUp(offset)
            /\ scrolled' = TRUE
            /\ pc' = "stream"
            /\ UNCHANGED <<stop_flag, gen, childVars>>
          ELSE IF HasPad /\ c = "DOWN" THEN
            /\ offset < MaxOffset
            /\ offset' = ScrollDown(offset)
            /\ scrolled' = TRUE
            /\ pc' = "stream"
            /\ UNCHANGED <<stop_flag, gen, childVars>>
          ELSE IF c \in {"s", "q"} THEN
            /\ stop_flag' = TRUE
            /\ BreakLoop
            /\ UNCHANGED <<offset, scrolled>>
          ELSE
            /\ pc' = "stream"
            /\ UNCHANGED <<offset, scrolled, stop_flag, gen, childVars>>
  /\ UNCHANGED <<envVars, installed, start, pad_offset, pad_maxy, ret, nodelay, menuVars, diskVars, consumed, lines,
                 idx_line, is_running, logfile, logcount, terms, reaped,
                 spawned, down_stuck>>

\* Finish without the call of write_log_stream
Finish_NoLog ==
  /\ pc = "finish"
  /\ variant \in ForLoop \cup {"momo6"}
  /\ nodelay' = IF variant \in {"momo", "momo6"} THEN FALSE ELSE nodelay
  /\ pc' = "msg"
  /\ ret' = "return"
  /\ UNCHANGED <<envVars, installed, start, pad_offset, pad_maxy, keys, menuVars, diskVars, childVars, localVars,
                 histVars>>

\* after the loop: the log is written and the result shown
Finish ==
  /\ pc = "finish"
  /\ variant \in ForLoop \cup {"momo6"}
  /\ nodelay' = IF variant \in {"momo", "momo6"} THEN FALSE ELSE nodelay
  /\ logfile' = lines
  /\ logcount' = logcount + 1
  /\ pc' = "msg"
  /\ ret' = "return"
  /\ UNCHANGED <<envVars, installed, start, pad_offset, pad_maxy, keys, menuVars, diskVars, childVars, localVars,
                 terms, reaped, spawned, scrolled, down_stuck>>

(* ------------------- momo6.py: while is_running or pad_lines > 0 ------- *)
\* resize with the pad enlarged only once pad_lines has reached its height
resize_AtLastRow(pl, maxy) == IF pl >= maxy THEN maxy + PAD_GROW ELSE maxy

\* "Ensure the pad is large enough": with pl lines in a pad of maxy rows
resize(pl, maxy) == IF pl >= maxy - 1 THEN maxy + PAD_GROW ELSE maxy

\* Accept6 with the pad row counter left where it was
Accept6_RowNotAdvanced(item) ==
  /\ lines' = Append(lines, item)
  /\ idx_line' = idx_line
  /\ offset' = AutoScroll6(idx_line, offset)
  /\ pad_maxy' = resize(idx_line, pad_maxy)

\* a line from the generator goes into lines_buffer and the pad
Accept6(item) ==
  /\ lines' = Append(lines, item)
  /\ idx_line' = idx_line + 1
  /\ pad_maxy' = resize(idx_line + 1, pad_maxy)
  /\ offset' = AutoScroll6(idx_line + 1, offset)

\* the annotation added whatever the exit code is
Annotates_Always(rc) == TRUE

\* "Check return code after reading all output"
Annotates(rc) == rc # 0

\* the top of the loop and next(proc_gen)
Stream6 ==
  /\ pc = "stream"
  /\ variant = "momo6"
  /\ IF ~is_running /\ idx_line = 0 THEN
       \* the loop condition fails
       /\ pc' = "finish"
       /\ UNCHANGED <<childVars, localVars, spawned, reaped, pad_maxy>>
     ELSE IF ~is_running THEN
       /\ pc' = "getch"
       /\ UNCHANGED <<childVars, localVars, spawned, reaped, pad_maxy>>
     ELSE
       CASE gen = "unstarted" ->
              \E res \in SpawnResults :
                IF res = "ok" THEN
                  /\ orphans < MaxOrphans
                  /\ child' = [st |-> "running", out |-> 0, rc |-> 0,
                               sig |-> FALSE]
                  /\ spawned' = TRUE
                  /\ gen' = "reading"
                  /\ UNCHANGED <<pc, orphans, consumed, stop_flag, lines,
                                 idx_line, offset, is_running, reaped, pad_maxy>>
                ELSE IF res = "FileNotFoundError" THEN
                  /\ Accept6(SPAWN_ERROR)
                  /\ gen' = "failed"
                  /\ pc' = "getch"
                  /\ UNCHANGED <<childVars, consumed, stop_flag, is_running,
                                 spawned, reaped>>
                ELSE
                  \* except Exception in run_test
                  /\ is_running' = FALSE
                  /\ lines' = Append(lines, INTERNAL_ERROR)
                  /\ idx_line' = idx_line + 1
                  /\ gen' = "done"
                  /\ pc' = "getch"
                  /\ UNCHANGED <<childVars, consumed, stop_flag, offset,
                                 spawned, reaped, pad_maxy>>
         [] gen = "reading" /\ LineAvailable ->
              /\ consumed' = consumed + 1
              /\ Accept6(Line(consumed + 1))
              /\ pc' = "getch"
              /\ UNCHANGED <<childVars, gen, stop_flag, is_running, spawned,
                             reaped>>
         [] gen = "reading" /\ EndOfStream ->
              /\ reaped' = TRUE
              /\ pc' = "getch"
              /\ IF Annotates(child.rc) THEN
                   /\ Accept6(EXIT_CODE)
                   /\ gen' = "annotated"
                   /\ UNCHANGED is_running
                 ELSE
                   /\ is_running' = FALSE
                   /\ gen' = "done"
                   /\ UNCHANGED <<lines, idx_line, offset, pad_maxy>>
              /\ UNCHANGED <<childVars, consumed, stop_flag, spawned>>
         [] gen \in {"failed", "annotated"} ->
              \* StopIteration
              /\ is_running' = FALSE
              /\ gen' = "done"
              /\ pc' = "getch"
              /\ UNCHANGED <<childVars, consumed, stop_flag, lines, idx_line,
                             offset, spawned, reaped, pad_maxy>>
         [] OTHER -> FALSE
  /\ down_stuck' = (down_stuck /\ idx_line' = idx_line)
  /\ UNCHANGED <<envVars, installed, start, pad_offset, ret, termVars, menuVars, diskVars, logfile,
                 logcount, terms, scrolled>>

\* "5. Handle Input" and "6. Refresh Display"
Key6 ==
  /\ pc = "getch"
  /\ variant = "momo6"
  /\ GetchReady
  /\ keys' = GetchRest
  /\ LET c == GetchKey IN
       IF c \in {"s", "q"} THEN
         /\ is_running' = FALSE
         /\ pc' = "msg"
         /\ ret' = "finish"
         /\ UNCHANGED <<offset, scrolled, down_stuck>>
       ELSE
         /\ offset' = IF c \in {"UP", "k"} THEN ScrollUp(offset)
                      ELSE IF c \in {"DOWN", "j"}
                        THEN ScrollDown6(idx_line, offset)
                      ELSE offset
         /\ scrolled' = (scrolled \/ c \in {"UP", "k", "DOWN", "j"})
         /\ down_stuck' = IF c \in {"UP", "k"} THEN FALSE
                          ELSE IF c \in {"DOWN", "j"}
                            THEN scrolled /\ ScrollDown6(idx_line, offset) <= offset
                          ELSE down_stuck
         /\ pc' = IF ~is_running /\ c = "ENTER" THEN "finish" ELSE "stream"
         /\ UNCHANGED <<ret, is_running>>
  /\ UNCHANGED <<envVars, installed, start, pad_offset, pad_maxy, nodelay, menuVars, diskVars, childVars, consumed,
                 gen, stop_flag, lines, idx_line, logfile, logcount, terms,
                 reaped, spawned>>

(* ------------------- momo2.py: run_command_stream ---------------------- *)
\* the first pad row of pad.refresh once the n-th line is in the pad, with
\* pad_pos in the place of the computed row
Start2_FromPadPos(n) == offset

\* "Refresh visible area of pad": the first pad row shown once the n-th
\* line is in the pad
Start2(n) == Max(0, n - (height - 6))

\* Popen, then the readline at the top of the loop
Stream2 ==
  /\ pc = "stream"
  /\ variant = "momo2"
  /\ CASE gen = "unstarted" ->
            \E res \in SpawnResults :
              IF res = "ok" THEN
                /\ orphans < MaxOrphans
                /\ child' = [st |-> "running", out |-> 0, rc |-> 0,
                             sig |-> FALSE]
                /\ spawned' = TRUE
                /\ gen' = "reading"
                /\ nodelay' = TRUE
                /\ UNCHANGED <<pc, orphans, consumed, lines, reaped, start>>
              ELSE
                /\ pc' = "crashed"
                /\ UNCHANGED <<childVars, gen, nodelay, consumed, lines,
                               spawned, reaped, start>>
       [] gen = "reading" /\ LineAvailable ->
            /\ consumed' = consumed + 1
            /\ lines' = Append(lines, Line(consumed + 1))
            /\ start' = Start2(Len(lines) + 1)
            /\ pc' = "getch"
            /\ UNCHANGED <<childVars, gen, nodelay, spawned, reaped>>
       [] gen = "reading" /\ EndOfStream ->
            /\ reaped' = TRUE
            /\ pc' = "finish"
            /\ UNCHANGED <<childVars, gen, nodelay, consumed, lines, spawned,
                           start>>
       [] OTHER -> FALSE
  /\ UNCHANGED <<envVars, installed, pad_offset, pad_maxy, ret, keys, menuVars, diskVars, stop_flag, idx_line,
                 offset, is_running, logfile, logcount, terms, scrolled,
                 down_stuck>>

\* Key2 with q and s calling terminate() and the loop going on
Key2_TerminateGoesOn ==
  /\ pc = "getch"
  /\ variant = "momo2"
  /\ GetchReady
  /\ keys' = GetchRest
  /\ LET c == GetchKey IN
       IF c \in {"q", "s"} THEN
         /\ terms' = terms + 1
         /\ child' = [child EXCEPT !.sig = TRUE]
         /\ stop_flag' = TRUE
         /\ pc' = "stream"
         /\ UNCHANGED <<offset, scrolled>>
       ELSE IF c = "UP" THEN
         /\ offset' = ScrollUp(offset)
         /\ scrolled' = TRUE
         /\ pc' = "stream"
         /\ UNCHANGED <<terms, child, stop_flag>>
       ELSE IF c = "DOWN" THEN
         /\ offset < MaxOffset
         /\ offset' = ScrollDown(offset)
         /\ scrolled' = TRUE
         /\ pc' = "stream"
         /\ UNCHANGED <<terms, child, stop_flag>>
       ELSE
         /\ pc' = "stream"
         /\ UNCHANGED <<offset, scrolled, terms, child, stop_flag>>
  /\ UNCHANGED <<envVars, installed, start, pad_offset, pad_maxy, ret, nodelay, menuVars, diskVars, orphans, consumed,
                 gen, lines, idx_line, is_running, logfile, logcount, reaped,
                 spawned, down_stuck>>

\* "handle keypresses"
Key2 ==
  /\ pc = "getch"
  /\ variant = "momo2"
  /\ GetchReady
  /\ keys' = GetchRest
  /\ LET c == GetchKey IN
       IF c \in {"q", "s"} THEN
         /\ terms' = terms + 1
         /\ child' = [child EXCEPT !.sig = TRUE]
         /\ stop_flag' = TRUE
         /\ pc' = "finish"
         /\ UNCHANGED <<offset, scrolled>>
       ELSE IF c = "UP" THEN
         /\ offset' = ScrollUp(offset)
         /\ scrolled' = TRUE
         /\ pc' = "stream"
         /\ UNCHANGED <<terms, child, stop_flag>>
       ELSE IF c = "DOWN" THEN
         /\ offset < MaxOffset
         /\ offset' = ScrollDown(offset)
         /\ scrolled' = TRUE
         /\ pc' = "stream"
         /\ UNCHANGED <<terms, child, stop_flag>>
       ELSE
         /\ pc' = "stream"
         /\ UNCHANGED <<offset, scrolled, terms, child, stop_flag>>
  /\ UNCHANGED <<envVars, installed, start, pad_offset, pad_maxy, ret, nodelay, menuVars, diskVars, orphans, consumed,
                 gen, lines, idx_line, is_running, logfile, logcount, reaped,
                 spawned, down_stuck>>

\* p.poll() answering None whatever became of the child
Poll_AlwaysNone == <<>>

\* p.poll(): <<>> stands for None, <<rc>> for the exit code
Poll == IF child.st = "exited" THEN <<child.rc>> ELSE <<>>

\* what communicate() returns: the lines from + 1 .. out, read from the pipe
\* itself; the lines consumed + 1 .. from, which readline() had already taken
\* into the buffer of p.stdout, are not among them
Remaining(from) == [i \in 1..(child.out - from) |-> Line(from + i)]

\* Finish2 with the drained output put in the place of the lines read
Finish2_DrainReplaces ==
  /\ pc = "finish"
  /\ variant = "momo2"
  /\ nodelay' = FALSE
  /\ IF child.st = "exited" THEN
       \E from \in consumed..child.out :
         /\ lines' = Remaining(from)
         /\ consumed' = child.out
         /\ reaped' = TRUE
         /\ logfile' = Remaining(from)
     ELSE
       \* TimeoutExpired: what was read is dropped, the child still runs
       /\ logfile' = lines
       /\ UNCHANGED <<lines, consumed, reaped>>
  /\ logcount' = logcount + 1
  /\ pc' = "msg"
  /\ ret' = "return"
  /\ UNCHANGED <<envVars, installed, start, pad_offset, pad_maxy, keys, menuVars, diskVars, childVars, gen, stop_flag,
                 idx_line, offset, is_running, terms, spawned, scrolled,
                 down_stuck>>

\* the finally clause (communicate with a 1 second timeout), rc = p.poll(),
\* and the end of run_command_flow
Finish2 ==
  /\ pc = "finish"
  /\ variant = "momo2"
  /\ nodelay' = FALSE
  /\ IF child.st = "exited" THEN
       \E from \in consumed..child.out :
         /\ lines' = lines \o Remaining(from)
         /\ consumed' = child.out
         /\ reaped' = TRUE
         /\ logfile' = lines \o Remaining(from)
     ELSE
       \* TimeoutExpired: what was read is dropped, the child still runs
       /\ logfile' = lines
       /\ UNCHANGED <<lines, consumed, reaped>>
  /\ logcount' = logcount + 1
  /\ pc' = "msg"
  /\ ret' = "return"
  /\ UNCHANGED <<envVars, installed, start, pad_offset, pad_maxy, keys, menuVars, diskVars, childVars, gen, stop_flag,
                 idx_line, offset, is_running, terms, spawned, scrolled,
                 down_stuck>>

Next ==
  \/ KeyPress
  \/ ChildEmit
  \/ ChildExit
  \/ OrphanExit
  \/ MenuKey
  \/ RunAllStep
  \/ RunTest
  \/ Prompt
  \/ SelectDisk
  \/ Start
  \/ ShowMessage
  \/ StreamNext
  \/ StreamKey
  \/ Finish
  \/ Stream6
  \/ Key6
  \/ Stream2
  \/ Key2
  \/ Finish2

Spec == Init /\ [][Next]_vars

\* Every step of the program is taken when it can be: the interpreter keeps
\* running.  Nothing obliges the user to press a key or the child to write
\* or to end.
ProgramStep ==
  \/ MenuKey \/ RunAllStep \/ RunTest \/ Prompt \/ SelectDisk \/ Start
  \/ ShowMessage \/ StreamNext \/ StreamKey \/ Finish \/ Stream6 \/ Key6
  \/ Stream2 \/ Key2 \/ Finish2

FairSpec == Spec /\ WF_vars(ProgramStep)

(* ============================== claims ================================ *)
Streaming == pc \in {"stream", "getch"}
IsOut(x) == x.kind = "out"
IsPrefix(s, t) == Len(s) <= Len(t) /\ SubSeq(t, 1, Len(s)) = s
\* the output lines of a transcript stand in the order the child wrote them
InArrivalOrder(s) ==
  LET o == SelectSeq(s, IsOut) IN
    \A i \in 1..Len(o) : \A j \in 1..Len(o) : i < j => o[i].n < o[j].n
\* the step in which run_test returns
RunReturns == test # 0 /\ test' = 0

\* C1: at most one child process is alive at any instant, across Run All and
\* menu-launched runs: when a run starts its child, the child of every
\* earlier run has exited or been terminated.
C1_AtMostOneChildAlive == Alive <= 1

\* C2: in the stop-flag variants (momo.py, momo7.py, momo9.py, momo4.py),
\* when s or q ended the streaming, terminate() has been called on the child
\* by the time the log is written.
C2_TerminateBeforeLog ==
  (variant \in ForLoop /\ stop_flag /\ logcount > 0) => terms > 0

\* C3: a run that started a child writes the log exactly once, right after
\* the streaming loop and right before the closing message and the return;
\* a run given up at the tool check or at the disk selection writes no log.
C3_OneLogPerRun ==
  [][ /\ logcount' <= 1
      /\ (logcount' = logcount + 1) =>
           (pc = "finish" /\ pc' = "msg" /\ ret' = "return")
      /\ RunReturns =>
           IF spawned THEN logcount = 1 /\ pc = "msg"
           ELSE (gen = "none" => logcount = 0) ]_vars

\* a run that hit the pad limit has written its log and is about to return
C3_Witness ==
  /\ pc = "msg" /\ ret = "return"
  /\ spawned /\ logcount = 1
  /\ Len(lines) > 0 /\ lines[Len(lines)] = PAD_FULL

\* C4: while a run lasts the transcript only grows at its end, its output
\* lines are the child's lines in arrival order, and what the log writer
\* receives is the transcript as it stands.
C4_AppendOnlyTranscript ==
  [][ test' # 0 =>
        /\ IsPrefix(lines, lines')
        /\ InArrivalOrder(lines')
        /\ (logcount' = logcount + 1) => (logfile' = lines') ]_vars

\* a log of two or more lines has been written
C4_Witness ==
  /\ pc = "msg" /\ logcount = 1
  /\ Len(logfile) >= 2 /\ logfile = lines

\* C5: in momo6.py, 0 <= scroll_offset <= max(0, pad_lines - PAD_HEIGHT)
\* at every tick, whatever lines arrived and scroll keys were pressed.
C5_ScrollOffsetInRange ==
  variant = "momo6" =>
    (0 <= offset /\ offset <= Max(0, idx_line - PAD_HEIGHT))

\* the user scrolled, and the offset is as far down as Down takes it
C5_Witness ==
  /\ variant = "momo6" /\ Streaming /\ scrolled
  /\ offset >= 1 /\ offset = idx_line - PAD_HEIGHT - 1

\* C6: in momo.py, momo7.py and momo9.py the pad offset stays within
\* [0, max(0, idx_line - visibleHeight)], visibleHeight = height - 6.
C6_PadOffsetInRange ==
  HasPad => (0 <= offset /\ offset <= Max(0, idx_line - VisibleHeight))

\* C7: while no scroll key was pressed, the offset is max(0, n - H) after
\* every line (H = height - 6 in momo.py, PAD_HEIGHT in momo6.py), and the
\* newest line's pad row n - 1 lies in the rows shown.
C7_AutoScrollTracksBottom ==
  ~scrolled =>
    /\ variant = "momo" =>
         /\ offset = Max(0, idx_line - VisibleHeight)
         /\ idx_line >= 1 =>
              (offset <= idx_line - 1 /\ idx_line - 1 <= offset + VisibleHeight - 1)
    /\ variant = "momo6" =>
         /\ offset = Max(0, idx_line - PAD_HEIGHT)
         /\ idx_line >= 1 =>
              (offset <= idx_line - 1 /\ idx_line - 1 <= offset + PAD_HEIGHT)

\* no scroll key so far, and the window has moved down by two lines or more
C7_Witness ==
  /\ variant \in {"momo", "momo6"} /\ Streaming
  /\ ~scrolled /\ offset >= 2

\* C8: in momo.py, once the user has scrolled up (the offset is above the
\* bottom), a new line leaves the offset where it is.
C8_ScrollUpHoldsOffset ==
  [][ ( /\ variant = "momo"
        /\ idx_line' = idx_line + 1
        /\ offset < idx_line - VisibleHeight ) => offset' = offset ]_vars

\* C9: in momo6.py, after the user scrolled up and then pressed Down until
\* the offset no longer rose, the next line puts the offset at the bottom of
\* the buffer again.
C9_DownReArmsAutoScroll ==
  [][ ( /\ variant = "momo6"
        /\ down_stuck
        /\ idx_line' = idx_line + 1 ) =>
        offset' = Max(0, idx_line' - PAD_HEIGHT) ]_vars

\* C10: in momo.py, momo6.py and momo2.py, a Stop key (s/q) waiting while the
\* child runs is acted on: the streaming loop is left, whether or not the
\* child writes another line or ends.
C10_StopKeyActedOn ==
  ( /\ variant \in {"momo", "momo6", "momo2"}
    /\ Streaming /\ gen = "reading" /\ child.st = "running"
    /\ keys # <<>> /\ Head(keys) \in {"s", "q"} )
  ~> ~Streaming

\* C11: in momo2.py, when run_command_stream returns after a Stop key, the
\* child is no longer running and the returned code is not None.
C11_StoppedChildIsGone ==
  [][ ( /\ variant = "momo2"
        /\ stop_flag
        /\ pc = "finish" /\ pc' = "msg" ) =>
        (child'.st # "running" /\ Poll # <<>>) ]_vars

\* C12: in momo2.py, momo6.py and momo.py, while the tool check says the
\* tool is missing, no child is started and no log is written; the answer
\* turns into "installed" only through an accepted install prompt; in
\* momo.py a missing tool leads straight to the message and the return.
C12_NoRunWithoutTool ==
  [][ (variant \in {"momo", "momo2", "momo6"}) =>
        ( /\ (installed = "no" /\ installed' = "yes") =>
               (pc = "prompt" /\ keys # <<>> /\ Head(keys) = "y")
          /\ installed' = "no" =>
               ( /\ ~spawned' /\ logcount' = 0
                 /\ gen' = "none" /\ child'.st = "none"
                 /\ pc' \in {"prompt", "msg", "crashed"}
                 /\ pc' = "msg" => ret' = "return" )
          /\ (variant = "momo" /\ installed' = "no") => pc' = "msg" )
    ]_vars

\* C12 happens: the install was accepted and failed, or the prompt was
\* declined, and the run is about to return
C12_Witness ==
  /\ variant \in {"momo2", "momo6"}
  /\ installed = "no" /\ pc = "msg" /\ ret = "return"
  /\ ~spawned /\ logcount = 0

\* C13: in momo9.py ("Tool not found. Skip?"), the answer yes makes run_test
\* return: the command is not started and no log is written.
C13_SkipYesReturns ==
  [][ ( /\ variant = "momo9"
        /\ pc = "prompt"
        /\ keys # <<>> /\ Head(keys) = "y"
        /\ keys' # keys ) =>
        (test' = 0 /\ pc' \in {"menu", "run_all"}) ]_vars

\* C14: for a test that needs a device, cancelling the disk selection, or
\* having no disk to select, takes run_test to its return (directly, or
\* through the "Skipping" message) with no child started and no log written.
C14_DiskCancelReturns ==
  [][ ( /\ \/ /\ pc = "select_disk"
              /\ keys # <<>>
              /\ Head(keys) = (IF variant = "momo" THEN "c" ELSE "q")
           \/ pc = "msg" /\ ret = "disk_none"
        /\ (pc' # pc \/ ret' # ret) ) =>
        ( /\ ~spawned' /\ logcount' = 0
          /\ child'.st = "none" /\ gen' = "none"
          /\ \/ test' = 0 /\ pc' \in {"menu", "run_all"}
             \/ pc' = "msg" /\ ret' = "return" ) ]_vars

\* C14 happens: the selection of a disk test (with a disk to select) was
\* cancelled and the "Skipping" message is up
C14_Witness ==
  /\ test # 0 /\ TESTS[test] \in DISK_TESTS
  /\ disks >= 1 /\ installed = "yes"
  /\ pc = "msg" /\ ret = "return"
  /\ ~spawned /\ logcount = 0 /\ gen = "none"

\* C15: in momo.py the transcript never holds more lines than the capacity
\* (pad_height); once the output went over it, one truncation marker stands
\* at the head and the lines after it are the most recent ones of the child.
C15_TruncationKeepsNewest ==
  (variant = "momo" /\ test # 0) =>
    /\ Len(lines) <= pad_height
    /\ (\E i \in 1..Len(lines) : lines[i] = PAD_FULL) =>
         /\ lines[1] = PAD_FULL
         /\ \A i \in 2..Len(lines) :
              lines[i] = Line(consumed - Len(lines) + i)

\* C16: in the for-loop variants, when the streaming of a child that ended
\* by itself with exit code 0 ends with no Stop key pressed, the transcript
\* has as many lines as the child wrote, plus at most one truncation marker
\* if that is more than the capacity.
C16_TranscriptLengthIsOutput ==
  [][ ( /\ variant \in ForLoop
        /\ pc = "stream" /\ pc' = "finish"
        /\ spawned /\ ~stop_flag
        /\ child.st = "exited" /\ child.rc = 0 ) =>
        ( \/ Len(lines') = child.out
          \/ HasPad /\ child.out > pad_height
                /\ Len(lines') = child.out + 1 ) ]_vars

\* the launch of the command failed: streaming began and no child came of it
LaunchFailed == ~spawned /\ gen \notin {"none", "unstarted"}

IsExitCode(x) == x = EXIT_CODE
Annotations(s) == Len(SelectSeq(s, IsExitCode))

\* C18: in momo6.py, once the generator has come to the end of the output
\* of a child that ended by itself, the transcript has exactly one exit-code
\* annotation, as its last line, if the exit code is not 0, and none if it
\* is 0; the log written afterwards is that transcript.
C18_ExitCodeAnnotation ==
  ( /\ variant = "momo6"
    /\ reaped
    /\ gen \in {"annotated", "done"} ) =>
    /\ IF child.rc # 0
         THEN /\ Annotations(lines) = 1
              /\ lines[Len(lines)] = EXIT_CODE
         ELSE Annotations(lines) = 0
    /\ logcount = 1 => logfile = lines

\* C18 happens: a child that wrote a line ended with exit code 1 and the
\* log was written
C18_Witness ==
  /\ variant = "momo6"
  /\ reaped /\ child.rc = 1
  /\ logcount = 1
  /\ Len(logfile) >= 2 /\ logfile[Len(logfile)] = EXIT_CODE

\* C19: in momo.py, the key read in the streaming loop acts by the fixed
\* mapping: arrow-up or k moves the offset up by one (not below 0),
\* arrow-down or j moves it down by one unless it is at the bottom, s or q in
\* either case ends the streaming, any other key changes neither the offset
\* nor the run.
C19_StreamingKeyMapping ==
  [][ ( /\ variant = "momo"
        /\ pc = "getch"
        /\ keys # <<>> /\ keys' # keys ) =>
        ( CASE Head(keys) \in {"UP", "k"} ->
                 offset' = Max(0, offset - 1) /\ pc' = "stream"
            [] Head(keys) \in {"DOWN", "j"} ->
                 /\ pc' = "stream"
                 /\ \/ offset' = offset + 1
                    \/ offset' = offset
                          /\ offset >= Max(0, idx_line - VisibleHeight)
            [] Head(keys) \in {"s", "q", "S"} -> pc' = "finish"
            [] OTHER -> offset' = offset /\ pc' = "stream" ) ]_vars

\* C20: in momo7.py, momo9.py and momo4.py the key poll of the streaming
\* loop does not block: with no key waiting, the poll can return and the
\* loop go on to the next line.
C20_KeyPollDoesNotBlock ==
  ( /\ variant \in {"momo7", "momo9", "momo4"}
    /\ pc = "getch" /\ keys = <<>>
    /\ child.st = "running" ) => ENABLED StreamKey

\* C21: in momo6.py, once the child has ended and all of its output has been
\* taken in, the viewing loop is left the next time its condition is
\* evaluated, whatever the keyboard does (and the log is written next).
C21_LeavesLoopWithoutKey ==
  [][ ( /\ variant = "momo6"
        /\ pc = "stream"
        /\ gen = "done" /\ reaped /\ ~is_running
        /\ pc' # pc ) => pc' = "finish" ]_vars

\* C22: in momo.py, on every way out of the streaming (end of the output, a
\* Stop key, the pad limit), the child has been waited for by the time the
\* log is written.
C22_ReapedBeforeLog ==
  (variant = "momo" /\ spawned /\ logcount > 0) => reaped

\* C23: in momo.py and momo2.py the streaming of a started child is left in
\* two ways only, the end of the child's output or a Stop key (s/q), and the
\* child is sent terminate() only on a Stop key: no amount of output and no
\* timeout ends the consumption of the output.
C23_TwoWaysOut ==
  [][ (variant \in {"momo", "momo2"}) =>
        ( /\ (Streaming /\ spawned /\ ~Streaming') =>
               \/ pc = "stream" /\ gen = "reading" /\ EndOfStream
               \/ stop_flag'
          /\ terms' > terms => stop_flag' ) ]_vars

C25_LaunchFailureContained ==
  (variant \in {"momo7", "momo4"} /\ gen = "unstarted") => pc # "crashed"

\* C26: in momo7.py and momo9.py, when more lines have arrived than the
\* visible area holds and no scroll key was pressed, the window shows the
\* most recent lines: offset = idx_line - visible height.
C26_WindowFollowsOutput ==
  ( /\ variant \in {"momo7", "momo9"}
    /\ ~scrolled
    /\ idx_line > VisibleHeight ) => offset = idx_line - VisibleHeight

\* a truncation marker is in the transcript
Truncated == \E i \in 1..Len(lines) : lines[i] = PAD_FULL

C28_ScrollKeysAreMonotone ==
  [][ ( /\ variant = "momo6"
        /\ pc = "getch"
        /\ keys # <<>> /\ keys' # keys ) =>
        ( /\ Head(keys) \in {"DOWN", "j"} => offset' >= offset
          /\ Head(keys) \in {"UP", "k"} => offset' <= offset ) ]_vars

\* C29: in momo2.py, when a Stop key ended the streaming, run_command_stream
\* returns the lines read before the Stop, unchanged and in order, followed
\* by what the drain after terminate() gave (lines of the child later than
\* those read, in order), and the drain is appended once.
C29_StopKeepsLinesRead ==
  [][ ( /\ variant = "momo2"
        /\ stop_flag
        /\ pc = "finish" /\ pc' # pc ) =>
        ( /\ IsPrefix(lines, lines')
          /\ InArrivalOrder(lines')
          /\ \A k \in 1..consumed : lines'[k] = Line(k)
          /\ Len(lines') <= child.out
          /\ logfile' = lines' /\ logcount' = 1
          /\ pc' = "msg" /\ ret' = "return" ) ]_vars

\* C29 happens: a run was stopped after its first line, and the drain added
\* a later line of the child
C29_Witness ==
  /\ variant = "momo2" /\ stop_flag
  /\ pc = "msg" /\ logcount = 1
  /\ Len(logfile) >= 2
  /\ logfile[1] = Line(1) /\ logfile[Len(logfile)] # Line(Len(logfile))

\* C30: in momo2.py, when the loop of run_command_stream was left at the
\* end of the child's output, the code returned (p.poll() after the drain)
\* is not None; it is None only after a Stop key, with the child still
\* running when the drain gave up.
C30_ReturnCodeAfterEndOfStream ==
  (variant = "momo2" /\ pc = "finish") =>
    /\ ~stop_flag => (Poll # <<>> /\ Poll[1] = child.rc)
    /\ Poll = <<>> => (stop_flag /\ child.st = "running")

\* C30 happens: the loop was left at the end of the output of a child that
\* wrote a line and ended with exit code 1
C30_Witness ==
  /\ variant = "momo2" /\ pc = "finish"
  /\ ~stop_flag /\ reaped
  /\ Len(lines) >= 1 /\ Poll = <<1>>

C32_MessageWaitsForKey ==
  pc = "msg" => ~nodelay

\* the number of truncation markers in a transcript
IsPadFull(x) == x = PAD_FULL
PadFullMarkers(s) == Len(SelectSeq(s, IsPadFull))

\* C33: in momo.py the transcript never holds more than pad_height + 1
\* entries (pad_height lines and the marker); the truncation marker stands
\* in it at most once, only as its last entry, and only when the child
\* wrote more than pad_height lines.
C33_MarkerOnceAndLast ==
  (variant = "momo" /\ test # 0) =>
    /\ Len(lines) <= pad_height + 1
    /\ PadFullMarkers(lines) <= 1
    /\ PadFullMarkers(lines) = 1 =>
         /\ lines[Len(lines)] = PAD_FULL
         /\ Len(lines) = pad_height + 1
         /\ consumed > pad_height

\* C33 happens: the child wrote one line more than the pad holds and the log
\* ends with the marker
C33_Witness ==
  /\ variant = "momo" /\ pc = "msg" /\ logcount = 1
  /\ Len(logfile) = pad_height + 1
  /\ logfile[pad_height + 1] = PAD_FULL
  /\ logfile[pad_height] = Line(pad_height)

\* C34: run_all (momo.py, momo7.py, momo2.py and the other programs but
\* momo6.py) takes the tests of the table one by one in table order: the
\* loop index moves only when the run of that test returns, by one, however
\* the run ended (Stop key, declined tool prompt, cancelled disk selection),
\* the test started is the one at the index, and the closing message comes
\* only after the last test.
C34_RunAllVisitsEachTest ==
  [][ (variant # "momo6" /\ runall > 0) =>
        ( /\ (test = 0 /\ test' # 0) =>
               (runall \in 1..NumTests /\ test' = runall)
          /\ RunReturns => (runall' = runall + 1 /\ pc' = "run_all")
          /\ runall' # runall =>
               \/ RunReturns /\ test = runall
               \/ runall = NumTests + 1 /\ runall' = 0 /\ pc' = "msg"
          /\ (pc = "run_all" /\ pc' # pc) =>
               IF runall <= NumTests
                 THEN pc' = "run_test" /\ test' = runall
                 ELSE pc' = "msg" /\ ret' = "menu" ) ]_vars

\* C34 happens: run_all has come to the last test of the table, and that
\* test was stopped with a key
C34_Witness ==
  /\ variant \in {"momo", "momo7", "momo2"}
  /\ runall = NumTests /\ test = NumTests
  /\ stop_flag /\ pc = "msg" /\ ret = "return"

\* the tests that momo6.py's Run All is to leave out
Interactive(i) == TESTS[i] \in DISK_TESTS \/ TESTS[i] = "FIO Benchmark"

\* C35: in momo6.py, Run All never enters the disk selection and never runs
\* a disk test or the FIO test; it runs every other test of the table once,
\* in table order; and on no path is the command of a disk test started
\* without a selected disk put in the place of DEVICE_PLACEHOLDER.
C35_RunAllLeavesOutDiskTests ==
  [][ (variant = "momo6") =>
        ( /\ runall' > 0 =>
               /\ pc' # "select_disk"
               /\ test' # 0 => ~Interactive(test')
          /\ runall > 0 =>
               /\ (test = 0 /\ test' # 0) => test' = runall
               /\ runall' # runall =>
                    \/ RunReturns /\ test = runall /\ runall' = runall + 1
                    \/ /\ test = 0 /\ runall <= NumTests
                       /\ Interactive(runall) /\ runall' = runall + 1
                    \/ runall = NumTests + 1 /\ runall' = 0
               /\ ( /\ pc = "run_all" /\ pc' # pc
                    /\ runall <= NumTests ) =>
                    (~Interactive(runall) /\ pc' = "run_test"
                       /\ test' = runall)
          /\ (test' # 0 /\ TESTS[test'] \in DISK_TESTS /\ gen' # "none") =>
               (disks' >= 1 /\ dsel' \in 0..(disks' - 1)) ) ]_vars

\* C35 happens: Run All of momo6.py has gone through the table, the plain
\* test run and the others left out
C35_Witness ==
  /\ variant = "momo6"
  /\ pc = "run_all" /\ runall = NumTests + 1

\* C36: in the menu of momo9.py the selection stays within
\* 0 .. len(menu_items) - 1 whatever keys are pressed, and after every draw
\* the selected item lies in the part of the menu shown:
\* pad_offset <= selected < pad_offset + visible_height.
C36_SelectionIsShown ==
  (variant = "momo9") =>
    /\ 0 <= selected /\ selected <= MenuLen - 1
    /\ pad_offset <= selected
    /\ selected < pad_offset + (height - 5)

\* C36 happens: the menu was scrolled down past its first window and then
\* up again to the top row of the window
C36_Witness ==
  /\ variant = "momo9" /\ pc = "menu"
  /\ pad_offset >= 1 /\ selected = pad_offset
  /\ selected < MenuLen - 1

====
